---------------------------- MODULE Spec2Model ----------------------------
(***************************************************************************)
(* Model of src/src/ossl.c of the pkcs11 sign provider: the forward        *)
(* resolver (fwd_get_func and its typed wrappers, fwd_init, fwd_teardown), *)
(* the core context (core_init, core_teardown, ossl_put_error) and the     *)
(* ECDSA signature codec (ossl_ecdsa_signature), and two threads that run  *)
(* fwd_get_func on one handle statement by statement.                      *)
(*                                                                         *)
(* C strings are sequences of one-character strings; a NULL pointer to a   *)
(* string is a separate flag.  Function references are strings, NULLF is   *)
(* the null function reference.  A reference to an algorithm table is the  *)
(* index of the query that returned it in the query log of its operation   *)
(* id, 0 is the NULL table pointer.                                        *)
(***************************************************************************)
EXTENDS Integers, Sequences, FiniteSets, TLC

VARIABLES
    fwd,        \* struct ossl_provider: provider, ctx, name, alg_cache[]
    provs,      \* the backends OSSL_PROVIDER_load has returned, by number
    backend,    \* the backend OSSL_PROVIDER_load finds under fwd_name
    qlog,       \* per operation id: the OSSL_PROVIDER_query_operation calls
    last,       \* the last forward call: its arguments and its result
    fault,      \* the process has died in undefined behaviour
    core,       \* struct ossl_core: libctx, handle, fns
    libctxs,    \* the child library contexts created: how often each was freed
    corelast,   \* the last core call: its arguments and what it called
    sigst,      \* the caller of ossl_ecdsa_signature: raw, sig, siglen, rc
    serialized, \* the callers hold one mutex per handle around a lookup
    mutex,      \* the thread that holds the mutex of the handle, 0 for none
    pc,         \* per thread: the line of fwd_get_func it is at
    loc         \* per thread: the locals of fwd_get_func

fwdvars == <<fwd, provs, backend, qlog, last, fault>>

corevars == <<core, libctxs, corelast>>

thrvars == <<serialized, mutex, pc, loc>>

vars ==
    <<fwd, provs, backend, qlog, last, fault, core, libctxs, corelast, sigst,
      serialized, mutex, pc, loc>>

----------------------------------------------------------------------------
(* Bounds of the model *)

MaxQueries == 2

MaxInits == 2

MaxRawLen == 4

MaxCap == 12

MaxLoads == 2

MaxAliases == 3

MaxAliasLen == 2

MaxNameLen == 3

MaxThreadCalls == 2

----------------------------------------------------------------------------
(* Constants of the program (openssl/core_dispatch.h, openssl/evp.h) *)

OSSL_OP_KEYMGMT == 10

OSSL_OP_KEYEXCH == 11

OSSL_OP_SIGNATURE == 12

OSSL_OP_ASYM_CIPHER == 13

OSSL_OP__HIGHEST == 22

EVP_PKEY_RSA == 6

EVP_PKEY_RSA_PSS == 912

EVP_PKEY_EC == 408

EVP_PKEY_DH == 28

OSSL_FUNC_CORE_GETTABLE_PARAMS == 1

OSSL_FUNC_CORE_GET_PARAMS == 2

OSSL_FUNC_CORE_NEW_ERROR == 5

OSSL_FUNC_CORE_SET_ERROR_DEBUG == 6

OSSL_FUNC_CORE_VSET_ERROR == 7

OSSL_RV_OK == 1

OSSL_RV_ERR == 0

NULLF == "NULL"

NUL == "NUL"

OpIds == 1..OSSL_OP__HIGHEST

----------------------------------------------------------------------------
(* C strings *)

tolower(c) ==
    CASE c = "A" -> "a" [] c = "B" -> "b" [] c = "C" -> "c" [] c = "D" -> "d"
      [] c = "E" -> "e" [] c = "H" -> "h" [] c = "P" -> "p" [] c = "R" -> "r"
      [] c = "S" -> "s" [] OTHER -> c

\* s[i] of a NUL-terminated string, 1-based: the terminator follows the text
CharAt(s, i) == IF i >= 1 /\ i <= Len(s) THEN s[i] ELSE NUL

\* strcasestr(haystack, needle): the 1-based index of the first occurrence
\* of needle in haystack, compared without regard to case; 0 for NULL
strcasestr(haystack, needle) ==
    LET n == Len(needle)
        at(i) == \A j \in 1..n : tolower(haystack[i + j - 1]) = tolower(needle[j])
        hits == {i \in 1..(Len(haystack) - n + 1) : at(i)}
    IN  IF n = 0 THEN 1
        ELSE IF hits = {} THEN 0
        ELSE CHOOSE i \in hits : \A k \in hits : i <= k

\* the test of one table entry in fwd_get_func: the first occurrence of the
\* name has to end at a ':' or at the end, and start at a ':' or at the start
AliasMatch(names, algorithm) ==
    LET found == strcasestr(names, algorithm)
        algolen == Len(algorithm)
    IN  /\ found # 0
        /\ CharAt(names, found + algolen) \in {NUL, ":"}
        /\ (found = 1 \/ CharAt(names, found - 1) = ":")

----------------------------------------------------------------------------
(* Algorithm tables: OSSL_ALGORITHM arrays ending with an entry whose      *)
(* algorithm_names is NULL, each with an OSSL_DISPATCH array ending with   *)
(* function_id 0.                                                          *)

DispEnd == [function_id |-> 0, function |-> NULLF]

Disp(id, f) == [function_id |-> id, function |-> f]

AlgEnd == [names_null |-> TRUE, algorithm_names |-> <<>>, implementation |-> <<DispEnd>>]

Alg(names, impl) ==
    [names_null |-> FALSE, algorithm_names |-> names, implementation |-> impl \o <<DispEnd>>]

\* the result of OSSL_PROVIDER_query_operation: NULL, or a table
NoTable == [null |-> TRUE, algs |-> <<>>]

Table(entries) == [null |-> FALSE, algs |-> entries \o <<AlgEnd>>]

\* the inner loop of fwd_get_func over impl->function_id
RECURSIVE ScanImplFrom(_, _, _)
ScanImplFrom(impl, i, function_id) ==
    IF impl[i].function_id = 0 THEN NULLF
    ELSE IF impl[i].function_id = function_id THEN impl[i].function
    ELSE ScanImplFrom(impl, i + 1, function_id)

ScanImpl(impl, function_id) == ScanImplFrom(impl, 1, function_id)

\* the outer loop of fwd_get_func over the table entries, from entry i
RECURSIVE ScanAlgsFrom(_, _, _, _)
ScanAlgsFrom(algs, i, algorithm, function_id) ==
    IF algs[i].names_null THEN NULLF
    ELSE IF ~AliasMatch(algs[i].algorithm_names, algorithm)
         THEN ScanAlgsFrom(algs, i + 1, algorithm, function_id)
    ELSE ScanImpl(algs[i].implementation, function_id)

\* the mutant: an entry that matches but lacks the id does not end the scan
RECURSIVE ScanAlgsOnFrom(_, _, _, _)
ScanAlgsOnFrom(algs, i, algorithm, function_id) ==
    IF algs[i].names_null THEN NULLF
    ELSE IF ~AliasMatch(algs[i].algorithm_names, algorithm)
         THEN ScanAlgsOnFrom(algs, i + 1, algorithm, function_id)
    ELSE IF ScanImpl(algs[i].implementation, function_id) = NULLF
         THEN ScanAlgsOnFrom(algs, i + 1, algorithm, function_id)
    ELSE ScanImpl(algs[i].implementation, function_id)

ScanAlgsOn(tab, algorithm, function_id) ==
    IF tab.null THEN NULLF ELSE ScanAlgsOnFrom(tab.algs, 1, algorithm, function_id)

\* lines 172-190: the function found in a table; a NULL table has no entry
ScanAlgs(tab, algorithm, function_id) ==
    IF tab.null THEN NULLF ELSE ScanAlgsFrom(tab.algs, 1, algorithm, function_id)


----------------------------------------------------------------------------
(* The backends OSSL_PROVIDER_load can return *)

sRSA == <<"R", "S", "A">>

sRSAPSS == <<"R", "S", "A", "-", "P", "S", "S">>

sEC == <<"E", "C">>

sECDSA == <<"E", "C", "D", "S", "A">>

sECDH == <<"E", "C", "D", "H">>

sRSAnames == sRSA \o <<":", "r", "s", "a", "E", "n", "c">>

sRSAPSSnames == sRSAPSS \o <<":", "R", "S", "A", "S", "S", "A", "-", "P", "S", "S">>

sECnames == sEC \o <<":", "i", "d", "-", "e", "c", "P", "u", "b">>

\* a backend with one signature algorithm "ECDSA", function id 7 being F
TestDouble ==
    [algs |-> [op \in OpIds |->
        IF op = OSSL_OP_SIGNATURE
        THEN Table(<<Alg(sECDSA, <<Disp(7, "F")>>)>>)
        ELSE NoTable]]

\* a backend in the shape of the default provider.  Its signature table has
\* an entry whose name only starts with ECDSA and two entries named ECDSA
DefaultLike ==
    [algs |-> [op \in OpIds |->
        CASE op = OSSL_OP_KEYMGMT ->
               Table(<<Alg(sRSAPSSnames, <<Disp(1, "rsapss_new")>>),
                       Alg(sRSAnames, <<Disp(1, "rsa_new"), Disp(7, "rsa_free")>>),
                       Alg(sECnames, <<Disp(1, "ec_new")>>)>>)
          [] op = OSSL_OP_KEYEXCH ->
               Table(<<Alg(sECDH, <<Disp(1, "ecdh_newctx")>>)>>)
          [] op = OSSL_OP_SIGNATURE ->
               Table(<<Alg(sRSAPSSnames, <<Disp(7, "rsapss_sign")>>),
                       Alg(sRSAnames, <<Disp(7, "rsa_sign")>>),
                       Alg(sECDSA \o <<"-", "S", "H", "A">>, <<Disp(7, "ecdsa_sha_sign")>>),
                       Alg(sECDSA, <<Disp(7, "ecdsa_sign")>>),
                       Alg(sECDSA \o <<":", "E", "C">>,
                           <<Disp(1, "ecdsa_newctx2"), Disp(7, "ecdsa_sign2")>>)>>)
          [] op = OSSL_OP_ASYM_CIPHER ->
               Table(<<Alg(sRSAnames, <<Disp(1, "rsa_newctx")>>)>>)
          [] OTHER -> NoTable]]

Backends == {TestDouble, DefaultLike}

\* the arguments the forward calls are made with
OpInputs == {0, OSSL_OP_SIGNATURE, OSSL_OP__HIGHEST, OSSL_OP__HIGHEST + 1}

AlgoInputs == {sRSA, sECDSA, <<"e", "c", "d", "s", "a">>}

WrapperFuncIds == {1, 7}

FuncIds == {0, 1, 7}

PkeyTypes == {EVP_PKEY_RSA, EVP_PKEY_RSA_PSS, EVP_PKEY_EC, EVP_PKEY_DH}

----------------------------------------------------------------------------
(* The core context and the signature codec: their states *)

NoFns ==
    [get_params |-> NULLF, new_error |-> NULLF,
     set_error_debug |-> NULLF, vset_error |-> NULLF]

\* a zeroed struct ossl_core
NoCore == [libctx |-> 0, handle |-> "NULL", fns |-> NoFns]

\* no core call made yet; in is the dispatch table a core_init was given
NoCoreCall ==
    [fn |-> "none", prev |-> "none", prev_null |-> FALSE, core_null |-> FALSE,
     rc |-> OSSL_RV_OK, invoked |-> <<>>, in |-> <<>>]

CoreZero ==
    /\ core = NoCore
    /\ libctxs = <<>>
    /\ corelast = NoCoreCall

\* no call of ossl_ecdsa_signature made yet; the cells of sig hold -1 until
\* they are written; sized is the length the call before reported when it
\* was a successful call without a buffer, -1 otherwise
NoSig ==
    [called |-> FALSE, raw_null |-> FALSE, raw |-> <<>>, raw_siglen |-> 0,
     sig_null |-> TRUE, sig |-> <<>>, siglen_in |-> 0, siglen |-> 0,
     rc |-> OSSL_RV_OK, sized |-> -1]

\* the threads that call fwd_get_func on one handle
Threads == {1, 2}

\* the locals of a thread that is not in fwd_get_func
NoLocals ==
    [default_algos |-> 0, query |-> 0, no_cache |-> 0, func |-> NULLF, calls |-> 0]

\* no thread is in fwd_get_func
ThrZero ==
    /\ serialized = FALSE
    /\ mutex = 0
    /\ pc = [t \in Threads |-> "idle"]
    /\ loc = [t \in Threads |-> NoLocals]

----------------------------------------------------------------------------
(* The forward resolver *)

\* no forward call made yet.  cause says why an fwd_init failed: "args" for
\* line 269, "load" for line 273, "ctx" for line 279
NoCall ==
    [fn |-> "none", fwd_null |-> FALSE, operation_id |-> 0, pkey_type |-> 0,
     algo_null |-> FALSE, algorithm |-> <<>>, function_id |-> 0,
     ret |-> NULLF, rc |-> OSSL_RV_OK, valid |-> FALSE, query |-> 0,
     no_cache |-> 0, default_algos |-> 0, cause |-> "none"]

RECURSIVE SumLen(_, _)
SumLen(log, n) == IF n = 0 THEN 0 ELSE Len(log[n]) + SumLen(log, n - 1)

\* the number of OSSL_PROVIDER_query_operation calls made so far
NQueries == SumLen(qlog, OSSL_OP__HIGHEST)

\* OSSL_PROVIDER_query_operation: the table a loaded backend offers for an
\* operation id; no backend, no table
ProviderQuery(p, operation_id) ==
    IF p = 0 \/ operation_id \notin OpIds THEN NoTable
    ELSE backend.algs[operation_id]

\* the table a reference points to: the backend's own table, which stays
\* where it is while the backend is there
Deref(operation_id, ref) ==
    IF ref = 0 \/ operation_id \notin OpIds THEN NoTable
    ELSE backend.algs[operation_id]

\* the mutant: an unloaded handle passes
ValidNoLoadCheck(fwd_null, f, operation_id) ==
    /\ ~fwd_null
    /\ operation_id > 0 /\ operation_id <= OSSL_OP__HIGHEST

\* lines 157-159: the validation of fwd_get_func
Valid(fwd_null, f, operation_id) ==
    /\ ~fwd_null /\ f.provider # 0
    /\ operation_id > 0 /\ operation_id <= OSSL_OP__HIGHEST

\* the mutant: the backend is queried whatever the slot holds
NeedsQueryAlways(cached) == TRUE

\* lines 164-165: the backend is queried when the cache slot is NULL
NeedsQuery(cached) == cached = 0

\* line 192: a queried table is released, whatever no_cache says
Releases(query, no_cache, default_algos) == query = 1 /\ default_algos # 0

\* the mutant: the table is stored whatever no_cache says
StoresAlways(no_cache, cached) == cached = 0

\* the mutant: the table is never stored
StoresNever(no_cache, cached) == FALSE

\* lines 197-198: the table is stored in an empty slot unless no_cache is set
Stores(no_cache, cached) == no_cache = 0 /\ cached = 0

\* the mutant: the table goes to the slot of the signature operation
StoreTableInOneSlot(f, operation_id, default_algos) ==
    [f EXCEPT !.alg_cache[OSSL_OP_SIGNATURE] = default_algos]

\* line 199: the table goes to the slot of the operation id
StoreTable(f, operation_id, default_algos) ==
    [f EXCEPT !.alg_cache[operation_id] = default_algos]

\* the cached reference points into a backend that has been unloaded
Dangling(f, operation_id) ==
    /\ f.alg_cache[operation_id] # 0
    /\ provs[qlog[operation_id][f.alg_cache[operation_id]].gen].unloads > 0

\* fwd_get_func with a string for algorithm.  Reading a table of a backend
\* that has been unloaded is undefined: the process dies there, or the
\* table is still where it was and is read
GetFuncBody(fn, fwd_null, operation_id, pkey_type, algo_null, algorithm, function_id) ==
    IF ~Valid(fwd_null, fwd, operation_id)
    THEN /\ last' = [NoCall EXCEPT !.fn = fn, !.fwd_null = fwd_null,
                        !.operation_id = operation_id, !.pkey_type = pkey_type,
                        !.algo_null = algo_null]
         /\ UNCHANGED <<fwd, provs, backend, qlog, fault>>
    ELSE
      LET cached == fwd.alg_cache[operation_id]
          query == IF NeedsQuery(cached) THEN 1 ELSE 0
      IN
       \/ /\ query = 0 /\ Dangling(fwd, operation_id)
          /\ fault' = TRUE
          /\ last' = [NoCall EXCEPT !.fn = fn, !.fwd_null = fwd_null,
                         !.operation_id = operation_id, !.pkey_type = pkey_type,
                         !.algo_null = algo_null]
          /\ UNCHANGED <<fwd, provs, backend, qlog>>
       \/ /\ query = 1 => NQueries < MaxQueries
          /\ \E no_cache \in (IF query = 1 THEN {0, 1} ELSE {0}) :
               LET res == ProviderQuery(fwd.provider, operation_id)
                   qlog1 == IF query = 1
                            THEN [qlog EXCEPT ![operation_id] =
                                    Append(@, [gen |-> fwd.provider, null |-> res.null,
                                               no_cache |-> no_cache, rel |-> 0])]
                            ELSE qlog
                   default_algos ==
                       IF query = 1
                       THEN (IF res.null THEN 0 ELSE Len(qlog1[operation_id]))
                       ELSE cached
                   func == ScanAlgs(Deref(operation_id, default_algos),
                                    algorithm, function_id)
                   qlog2 == IF Releases(query, no_cache, default_algos)
                            THEN [qlog1 EXCEPT ![operation_id][default_algos].rel = @ + 1]
                            ELSE qlog1
               IN  /\ qlog' = qlog2
                   /\ fwd' = IF Stores(no_cache, fwd.alg_cache[operation_id])
                             THEN StoreTable(fwd, operation_id, default_algos)
                             ELSE fwd
                   /\ last' = [NoCall EXCEPT !.fn = fn, !.fwd_null = fwd_null,
                                  !.operation_id = operation_id, !.pkey_type = pkey_type,
                                  !.algo_null = algo_null, !.algorithm = algorithm,
                                  !.function_id = function_id, !.ret = func,
                                  !.valid = TRUE, !.query = query,
                                  !.no_cache = no_cache, !.default_algos = default_algos]
                   /\ UNCHANGED <<provs, backend, fault>>

\* lines 146-203.  strlen(algorithm) comes first: with a NULL algorithm it is
\* undefined, the process dies there or goes on with whatever it read
GetFunc(fn, fwd_null, operation_id, pkey_type, algo_null, algorithm, function_id) ==
    /\ ~fault
    /\ UNCHANGED <<corevars, sigst, thrvars>>
    /\ IF algo_null
       THEN \/ /\ fault' = TRUE
               /\ last' = [NoCall EXCEPT !.fn = fn, !.fwd_null = fwd_null,
                              !.operation_id = operation_id, !.pkey_type = pkey_type,
                              !.algo_null = TRUE]
               /\ UNCHANGED <<fwd, provs, backend, qlog>>
            \/ \E garbage \in AlgoInputs :
                 GetFuncBody(fn, fwd_null, operation_id, pkey_type, TRUE, garbage, function_id)
       ELSE GetFuncBody(fn, fwd_null, operation_id, pkey_type, FALSE, algorithm, function_id)

\* the arguments a call is tried with: a call that fails the validation
\* reads neither the name nor the function id, so one of each is tried
ArgsOf(fwd_null, operation_id, S) ==
    IF Valid(fwd_null, fwd, operation_id) THEN S ELSE {CHOOSE x \in S : TRUE}

fwd_get_func ==
    \E fwd_null \in BOOLEAN, operation_id \in OpInputs :
      \E algorithm \in ArgsOf(fwd_null, operation_id, AlgoInputs),
         function_id \in ArgsOf(fwd_null, operation_id, FuncIds) :
        GetFunc("fwd_get_func", fwd_null, operation_id, 0, FALSE, algorithm, function_id)

\* the mutant: an EC key gives "EC" for signatures too
fwd_get_algo_nosign(pkey_type, sign) ==
    CASE pkey_type = EVP_PKEY_RSA -> <<FALSE, sRSA>>
      [] pkey_type = EVP_PKEY_RSA_PSS -> <<FALSE, sRSAPSS>>
      [] pkey_type = EVP_PKEY_EC -> <<FALSE, sEC>>
      [] OTHER -> <<TRUE, <<>>>>

\* lines 205-220; the result is <<is NULL, the name>>
fwd_get_algo(pkey_type, sign) ==
    CASE pkey_type = EVP_PKEY_RSA -> <<FALSE, sRSA>>
      [] pkey_type = EVP_PKEY_RSA_PSS -> <<FALSE, sRSAPSS>>
      [] pkey_type = EVP_PKEY_EC -> IF sign THEN <<FALSE, sECDSA>> ELSE <<FALSE, sEC>>
      [] OTHER -> <<TRUE, <<>>>>

fwd_keymgmt_get_func ==
    \E fwd_null \in BOOLEAN, pkey_type \in PkeyTypes :
      \E function_id \in ArgsOf(fwd_null, OSSL_OP_KEYMGMT, WrapperFuncIds) :
        LET a == fwd_get_algo(pkey_type, FALSE)
        IN  GetFunc("fwd_keymgmt_get_func", fwd_null, OSSL_OP_KEYMGMT, pkey_type,
                    a[1], a[2], function_id)

fwd_keyexch_get_func ==
    \E fwd_null \in BOOLEAN :
      \E function_id \in ArgsOf(fwd_null, OSSL_OP_KEYEXCH, WrapperFuncIds) :
        GetFunc("fwd_keyexch_get_func", fwd_null, OSSL_OP_KEYEXCH, 0,
                FALSE, sECDH, function_id)

fwd_asym_get_func ==
    \E fwd_null \in BOOLEAN, pkey_type \in PkeyTypes :
      \E function_id \in ArgsOf(fwd_null, OSSL_OP_ASYM_CIPHER, WrapperFuncIds) :
        LET a == fwd_get_algo(pkey_type, FALSE)
        IN  GetFunc("fwd_asym_get_func", fwd_null, OSSL_OP_ASYM_CIPHER, pkey_type,
                    a[1], a[2], function_id)

fwd_sign_get_func ==
    \E fwd_null \in BOOLEAN, pkey_type \in PkeyTypes :
      \E function_id \in ArgsOf(fwd_null, OSSL_OP_SIGNATURE, WrapperFuncIds) :
        LET a == fwd_get_algo(pkey_type, TRUE)
        IN  GetFunc("fwd_sign_get_func", fwd_null, OSSL_OP_SIGNATURE, pkey_type,
                    a[1], a[2], function_id)

\* the mutant: the backend is unloaded and provider is not set to NULL
TeardownKeepsProvider(f, ps) ==
    <<[f EXCEPT !.ctx = 0],
      IF f.provider # 0
      THEN [ps EXCEPT ![f.provider].unloads = @ + 1]
      ELSE ps>>

\* lines 253-263 on a handle that is not NULL: <<the handle, the backends>>
Teardown(f, ps) ==
    <<[f EXCEPT !.provider = 0, !.ctx = 0],
      IF f.provider # 0
      THEN [ps EXCEPT ![f.provider].unloads = @ + 1]
      ELSE ps>>

fwd_teardown ==
    /\ ~fault
    /\ UNCHANGED <<corevars, sigst, thrvars>>
    /\ \E fwd_null \in BOOLEAN :
         /\ last' = [NoCall EXCEPT !.fn = "fwd_teardown", !.fwd_null = fwd_null]
         /\ IF fwd_null
            THEN UNCHANGED <<fwd, provs>>
            ELSE /\ fwd' = Teardown(fwd, provs)[1]
                 /\ provs' = Teardown(fwd, provs)[2]
    /\ UNCHANGED <<backend, qlog, fault>>

\* lines 265-288.  OSSL_PROVIDER_load fails, or returns one of the backends,
\* which exposes a context pointer or does not
fwd_init ==
    /\ ~fault
    /\ UNCHANGED <<corevars, sigst, thrvars>>
    /\ \E fwd_null \in BOOLEAN, args_null \in BOOLEAN :
         IF fwd_null \/ args_null
         THEN /\ last' = [NoCall EXCEPT !.fn = "fwd_init", !.fwd_null = fwd_null,
                             !.rc = OSSL_RV_ERR, !.cause = "args"]
              /\ UNCHANGED <<fwd, provs>>
         ELSE \/ \* the load fails
                 LET f1 == [fwd EXCEPT !.provider = 0]
                 IN  /\ fwd' = Teardown(f1, provs)[1]
                     /\ provs' = Teardown(f1, provs)[2]
                     /\ last' = [NoCall EXCEPT !.fn = "fwd_init", !.rc = OSSL_RV_ERR,
                                    !.cause = "load"]
              \/ /\ Len(provs) < MaxLoads
                 /\ \E hasctx \in BOOLEAN :
                      LET ps1 == Append(provs, [unloads |-> 0])
                          f1 == [fwd EXCEPT !.provider = Len(ps1)]
                      IN  IF hasctx
                          THEN /\ fwd' = [f1 EXCEPT !.ctx = Len(ps1), !.name = "fwd_name"]
                               /\ provs' = ps1
                               /\ last' = [NoCall EXCEPT !.fn = "fwd_init"]
                          ELSE /\ fwd' = Teardown(f1, ps1)[1]
                               /\ provs' = Teardown(f1, ps1)[2]
                               /\ last' = [NoCall EXCEPT !.fn = "fwd_init",
                                              !.rc = OSSL_RV_ERR, !.cause = "ctx"]
    /\ UNCHANGED <<backend, qlog, fault>>

\* a zeroed struct ossl_provider, no backend loaded yet
FwdInit ==
    /\ fwd = [provider |-> 0, ctx |-> 0, name |-> "NULL",
              alg_cache |-> [op \in OpIds |-> 0]]
    /\ provs = <<>>
    /\ qlog = [op \in OpIds |-> <<>>]
    /\ last = NoCall
    /\ fault = FALSE
    /\ ThrZero

Init ==
    /\ FwdInit
    /\ backend \in Backends
    /\ CoreZero
    /\ sigst = NoSig

Next ==
    \/ fwd_init
    \/ fwd_teardown
    \/ fwd_get_func

Spec == Init /\ [][Next]_vars

\* the typed lookups: on a handle fwd_init has loaded, and on one it has not
InitTyped ==
    /\ backend \in Backends
    /\ \E loaded \in BOOLEAN :
         /\ fwd = [provider |-> IF loaded THEN 1 ELSE 0,
                   ctx |-> IF loaded THEN 1 ELSE 0,
                   name |-> IF loaded THEN "fwd_name" ELSE "NULL",
                   alg_cache |-> [op \in OpIds |-> 0]]
         /\ provs = IF loaded THEN <<[unloads |-> 0]>> ELSE <<>>
    /\ qlog = [op \in OpIds |-> <<>>]
    /\ last = NoCall
    /\ fault = FALSE
    /\ ThrZero
    /\ CoreZero
    /\ sigst = NoSig

NextTyped ==
    \/ fwd_keymgmt_get_func
    \/ fwd_keyexch_get_func
    \/ fwd_asym_get_func
    \/ fwd_sign_get_func

SpecTyped == InitTyped /\ [][NextTyped]_vars

----------------------------------------------------------------------------
(* Lookups by name in a table of one entry whose alias list is drawn       *)

RECURSIVE Strs(_, _)
Strs(chars, n) ==
    IF n = 0 THEN {<<>>}
    ELSE LET S == Strs(chars, n - 1)
         IN  S \cup {Append(x, c) : x \in S, c \in chars}

\* the aliases: names of one or more letters
Aliases == Strs({"A", "B"}, MaxAliasLen) \ {<<>>}

RECURSIVE AliasListsOf(_)
AliasListsOf(n) ==
    IF n = 1 THEN Aliases
    ELSE LET L == AliasListsOf(n - 1)
         IN  L \cup {l \o <<":">> \o a : l \in L, a \in Aliases}

\* the alias lists: one or more aliases with ':' between them
AliasLists == AliasListsOf(MaxAliases)

\* the names asked for: any text of letters and ':'
Names == Strs({"A", "B", "b", ":"}, MaxNameLen) \ {<<>>}

AliasBackend(names) ==
    [algs |-> [op \in OpIds |->
        IF op = OSSL_OP_SIGNATURE
        THEN Table(<<Alg(names, <<Disp(7, "F")>>)>>)
        ELSE NoTable]]

InitAlias ==
    /\ \E names \in AliasLists : backend = AliasBackend(names)
    /\ fwd = [provider |-> 1, ctx |-> 1, name |-> "fwd_name",
              alg_cache |-> [op \in OpIds |-> 0]]
    /\ provs = <<[unloads |-> 0]>>
    /\ qlog = [op \in OpIds |-> <<>>]
    /\ last = NoCall
    /\ fault = FALSE
    /\ ThrZero
    /\ CoreZero
    /\ sigst = NoSig

\* the first lookup on the loaded handle, by any of the names
fwd_get_func_by_name ==
    /\ NQueries = 0
    /\ \E algorithm \in Names :
         GetFunc("fwd_get_func", FALSE, OSSL_OP_SIGNATURE, 0, FALSE, algorithm, 7)

NextAlias == fwd_get_func_by_name

SpecAlias == InitAlias /\ [][NextAlias]_vars

----------------------------------------------------------------------------
(* Two threads in fwd_get_func on one loaded handle, for the signature      *)
(* operation, statement by statement.  The reads and the write of the cache *)
(* slot are single pointer accesses: a read sees the slot as it was before  *)
(* or after a write of the other thread.  When the callers serialize, a     *)
(* thread takes the mutex of the handle before the call and gives it back   *)
(* after the return.                                                        *)

\* the call: lines 146-159 on a loaded handle with a valid operation id
thr_enter(t) ==
    /\ pc[t] = "idle"
    /\ loc[t].calls < MaxThreadCalls
    /\ serialized => mutex = 0
    /\ mutex' = IF serialized THEN t ELSE mutex
    /\ Valid(FALSE, fwd, OSSL_OP_SIGNATURE)
    /\ pc' = [pc EXCEPT ![t] = "l164"]
    /\ loc' = [loc EXCEPT ![t] = [NoLocals EXCEPT !.calls = loc[t].calls + 1]]
    /\ UNCHANGED <<fwd, qlog>>

\* line 164: the slot is read
thr_read_cache(t) ==
    /\ pc[t] = "l164"
    /\ loc' = [loc EXCEPT ![t].default_algos = fwd.alg_cache[OSSL_OP_SIGNATURE]]
    /\ pc' = [pc EXCEPT ![t] = "l165"]
    /\ UNCHANGED <<fwd, qlog, mutex>>

\* lines 165-170: the backend is queried when the slot was read as NULL
thr_query(t) ==
    /\ pc[t] = "l165"
    /\ pc' = [pc EXCEPT ![t] = "l172"]
    /\ IF NeedsQuery(loc[t].default_algos)
       THEN \E no_cache \in {0, 1} :
              LET res == ProviderQuery(fwd.provider, OSSL_OP_SIGNATURE)
                  log == Append(qlog[OSSL_OP_SIGNATURE],
                                [gen |-> fwd.provider, null |-> res.null,
                                 no_cache |-> no_cache, rel |-> 0])
              IN  /\ qlog' = [qlog EXCEPT ![OSSL_OP_SIGNATURE] = log]
                  /\ loc' = [loc EXCEPT ![t].default_algos =
                                            IF res.null THEN 0 ELSE Len(log),
                                        ![t].query = 1,
                                        ![t].no_cache = no_cache]
       ELSE UNCHANGED <<qlog, loc>>
    /\ UNCHANGED <<fwd, mutex>>

\* lines 172-190: the table is searched
thr_scan(t) ==
    /\ pc[t] = "l172"
    /\ loc' = [loc EXCEPT ![t].func =
                  ScanAlgs(Deref(OSSL_OP_SIGNATURE, loc[t].default_algos), sECDSA, 7)]
    /\ pc' = [pc EXCEPT ![t] = "l192"]
    /\ UNCHANGED <<fwd, qlog, mutex>>

\* lines 192-195: a table that was queried is released
thr_unquery(t) ==
    /\ pc[t] = "l192"
    /\ qlog' = IF Releases(loc[t].query, loc[t].no_cache, loc[t].default_algos)
               THEN [qlog EXCEPT ![OSSL_OP_SIGNATURE][loc[t].default_algos].rel = @ + 1]
               ELSE qlog
    /\ pc' = [pc EXCEPT ![t] = "l197"]
    /\ UNCHANGED <<fwd, loc, mutex>>

\* lines 197-199: the slot is read again and written when it is NULL
thr_store(t) ==
    /\ pc[t] = "l197"
    /\ fwd' = IF Stores(loc[t].no_cache, fwd.alg_cache[OSSL_OP_SIGNATURE])
              THEN StoreTable(fwd, OSSL_OP_SIGNATURE, loc[t].default_algos)
              ELSE fwd
    /\ pc' = [pc EXCEPT ![t] = "l202"]
    /\ UNCHANGED <<qlog, loc, mutex>>

\* line 202: the return
thr_return(t) ==
    /\ pc[t] = "l202"
    /\ pc' = [pc EXCEPT ![t] = "idle"]
    /\ mutex' = IF serialized THEN 0 ELSE mutex
    /\ UNCHANGED <<fwd, qlog, loc>>

\* a handle fwd_init has loaded; the callers serialize or do not
InitThreads ==
    /\ backend = TestDouble
    /\ fwd = [provider |-> 1, ctx |-> 1, name |-> "fwd_name",
              alg_cache |-> [op \in OpIds |-> 0]]
    /\ provs = <<[unloads |-> 0]>>
    /\ qlog = [op \in OpIds |-> <<>>]
    /\ last = NoCall
    /\ fault = FALSE
    /\ serialized \in BOOLEAN
    /\ mutex = 0
    /\ pc = [t \in Threads |-> "idle"]
    /\ loc = [t \in Threads |-> NoLocals]
    /\ CoreZero
    /\ sigst = NoSig

NextThreads ==
    \E t \in Threads :
      /\ \/ thr_enter(t)
         \/ thr_read_cache(t)
         \/ thr_query(t)
         \/ thr_scan(t)
         \/ thr_unquery(t)
         \/ thr_store(t)
         \/ thr_return(t)
      /\ UNCHANGED <<provs, backend, last, fault, serialized, corevars, sigst>>

SpecThreads == InitThreads /\ [][NextThreads]_vars

----------------------------------------------------------------------------
(* The core context: core_init, core_teardown, ossl_put_error *)

\* a dispatch table with the error callbacks whose ids are in S, in id order
ErrTable(S) ==
    (IF OSSL_FUNC_CORE_NEW_ERROR \in S
     THEN <<Disp(OSSL_FUNC_CORE_NEW_ERROR, "h3_new_error")>> ELSE <<>>)
    \o (IF OSSL_FUNC_CORE_SET_ERROR_DEBUG \in S
        THEN <<Disp(OSSL_FUNC_CORE_SET_ERROR_DEBUG, "h3_set_error_debug")>> ELSE <<>>)
    \o (IF OSSL_FUNC_CORE_VSET_ERROR \in S
        THEN <<Disp(OSSL_FUNC_CORE_VSET_ERROR, "h3_vset_error")>> ELSE <<>>)
    \o <<DispEnd>>

ErrIds ==
    {OSSL_FUNC_CORE_NEW_ERROR, OSSL_FUNC_CORE_SET_ERROR_DEBUG, OSSL_FUNC_CORE_VSET_ERROR}

\* the dispatch tables a host passes in: all four functions and one the
\* provider does not know; two of them and one after the end; every set of
\* the three error callbacks, the empty one included
HostTables ==
    {ErrTable(S) : S \in SUBSET ErrIds} \cup
    {<<Disp(OSSL_FUNC_CORE_GETTABLE_PARAMS, "h1_gettable_params"),
       Disp(OSSL_FUNC_CORE_GET_PARAMS, "h1_get_params"),
       Disp(OSSL_FUNC_CORE_NEW_ERROR, "h1_new_error"),
       Disp(OSSL_FUNC_CORE_SET_ERROR_DEBUG, "h1_set_error_debug"),
       Disp(OSSL_FUNC_CORE_VSET_ERROR, "h1_vset_error"),
       DispEnd>>,
     <<Disp(OSSL_FUNC_CORE_NEW_ERROR, "h2_new_error"),
       Disp(OSSL_FUNC_CORE_VSET_ERROR, "h2_vset_error"),
       DispEnd,
       Disp(OSSL_FUNC_CORE_GET_PARAMS, "h2_get_params")>>}

HostHandles == {"h1", "h2"}

\* lines 321-340: one entry of the dispatch table
StoreFn(fns, d) ==
    CASE d.function_id = OSSL_FUNC_CORE_GET_PARAMS ->
           [fns EXCEPT !.get_params = d.function]
      [] d.function_id = OSSL_FUNC_CORE_NEW_ERROR ->
           [fns EXCEPT !.new_error = d.function]
      [] d.function_id = OSSL_FUNC_CORE_SET_ERROR_DEBUG ->
           [fns EXCEPT !.set_error_debug = d.function]
      [] d.function_id = OSSL_FUNC_CORE_VSET_ERROR ->
           [fns EXCEPT !.vset_error = d.function]
      [] OTHER -> fns

\* line 320: the loop over the dispatch table, up to function_id 0
RECURSIVE ScanDispatch(_, _, _)
ScanDispatch(in, i, fns) ==
    IF in[i].function_id = 0 THEN fns
    ELSE ScanDispatch(in, i + 1, StoreFn(fns, in[i]))

\* lines 307-344.  OSSL_LIB_CTX_new_child fails, or returns a new context
core_init ==
    /\ \E handle \in HostHandles, in \in HostTables :
         \/ /\ core' = [core EXCEPT !.libctx = 0]
            /\ libctxs' = libctxs
            /\ corelast' = [NoCoreCall EXCEPT !.fn = "core_init", !.prev = corelast.fn,
                               !.prev_null = corelast.core_null,
                               !.rc = OSSL_RV_ERR, !.in = in]
         \/ /\ Len(libctxs) < MaxInits
            /\ libctxs' = Append(libctxs, 0)
            /\ core' = [libctx |-> Len(libctxs) + 1, handle |-> handle,
                        fns |-> ScanDispatch(in, 1, core.fns)]
            /\ corelast' = [NoCoreCall EXCEPT !.fn = "core_init", !.prev = corelast.fn,
                               !.prev_null = corelast.core_null, !.in = in]
    /\ UNCHANGED <<fwdvars, sigst, thrvars>>

\* the mutant: libctx is freed and not set to NULL
CoreTeardownKeepsLibctx(c, ls) ==
    <<[c EXCEPT !.handle = "NULL", !.fns = NoFns],
      IF c.libctx # 0 THEN [ls EXCEPT ![c.libctx] = @ + 1] ELSE ls>>

\* lines 295-304 on a context that is not NULL: <<the context, the frees>>
CoreTeardown(c, ls) ==
    <<NoCore,
      IF c.libctx # 0 THEN [ls EXCEPT ![c.libctx] = @ + 1] ELSE ls>>

\* lines 290-305
core_teardown ==
    /\ \E core_null \in BOOLEAN :
         /\ corelast' = [NoCoreCall EXCEPT !.fn = "core_teardown",
                            !.prev = corelast.fn, !.prev_null = corelast.core_null, !.core_null = core_null]
         /\ IF core_null
            THEN UNCHANGED <<core, libctxs>>
            ELSE /\ core' = CoreTeardown(core, libctxs)[1]
                 /\ libctxs' = CoreTeardown(core, libctxs)[2]
    /\ UNCHANGED <<fwdvars, sigst, thrvars>>

\* the mutant: the first absent callback ends the relay
InvokedUntilAbsent(fns) ==
    IF fns.new_error = NULLF THEN <<>>
    ELSE IF fns.set_error_debug = NULLF THEN <<fns.new_error>>
    ELSE IF fns.vset_error = NULLF THEN <<fns.new_error, fns.set_error_debug>>
    ELSE <<fns.new_error, fns.set_error_debug, fns.vset_error>>

\* lines 136-141: the host callbacks ossl_put_error calls, in order
Invoked(fns) ==
    (IF fns.new_error # NULLF THEN <<fns.new_error>> ELSE <<>>)
    \o (IF fns.set_error_debug # NULLF THEN <<fns.set_error_debug>> ELSE <<>>)
    \o (IF fns.vset_error # NULLF THEN <<fns.vset_error>> ELSE <<>>)

\* lines 125-144
ossl_put_error ==
    /\ \E core_null \in BOOLEAN :
         corelast' = [NoCoreCall EXCEPT !.fn = "ossl_put_error",
                         !.prev = corelast.fn, !.prev_null = corelast.core_null, !.core_null = core_null,
                         !.invoked = IF core_null THEN <<>> ELSE Invoked(core.fns)]
    /\ UNCHANGED <<core, libctxs, fwdvars, sigst, thrvars>>

InitCore ==
    /\ FwdInit
    /\ backend = TestDouble
    /\ CoreZero
    /\ sigst = NoSig

NextCore ==
    \/ core_init
    \/ core_teardown
    \/ ossl_put_error

SpecCore == InitCore /\ [][NextCore]_vars

----------------------------------------------------------------------------
(* The signature codec: ossl_ecdsa_signature.  Bytes are 0..255.  Failing  *)
(* allocations (ECDSA_SIG_new, BN_bin2bn) are left out.                    *)

ByteVals == {0, 1, 128}

RECURSIVE ByteStrs(_)
ByteStrs(n) ==
    IF n = 0 THEN {<<>>}
    ELSE LET S == ByteStrs(n - 1)
         IN  S \cup {Append(x, b) : x \in S, b \in ByteVals}

\* BN_bin2bn: the magnitude of a big-endian number, leading zeros dropped
RECURSIVE BN_bin2bn(_)
BN_bin2bn(bytes) ==
    IF bytes = <<>> THEN <<>>
    ELSE IF bytes[1] = 0 THEN BN_bin2bn(Tail(bytes))
    ELSE bytes

\* a DER length
DerLen(n) ==
    IF n < 128 THEN <<n>>
    ELSE IF n < 256 THEN <<129, n>>
    ELSE <<130, n \div 256, n % 256>>

\* the mutant: no 0 byte goes before a magnitude whose top bit is set
DerIntegerNoPad(mag) ==
    LET content == IF mag = <<>> THEN <<0>> ELSE mag
    IN  <<2>> \o <<Len(content)>> \o content

\* a DER INTEGER of a magnitude: zero is one 0 byte, a 0 byte goes before a
\* magnitude whose top bit is set
DerInteger(mag) ==
    LET content == IF mag = <<>> THEN <<0>>
                   ELSE IF mag[1] >= 128 THEN <<0>> \o mag
                   ELSE mag
    IN  <<2>> \o DerLen(Len(content)) \o content

\* i2d_ECDSA_SIG: the DER SEQUENCE of the two INTEGERs r and s
i2d_ECDSA_SIG(r, s) ==
    LET body == DerInteger(r) \o DerInteger(s)
    IN  <<48>> \o DerLen(Len(body)) \o body

\* line 82
RawRefused(raw_null, raw_siglen) == raw_null \/ raw_siglen = 0

\* the mutant: a buffer of exactly the required length is refused
TooSmallOffByOne(siglen_in, derlen) == siglen_in <= derlen

\* line 107
TooSmall(siglen_in, derlen) == siglen_in < derlen

\* lines 74-123, with raw holding raw_siglen bytes and sig holding the
\* siglen_in cells the caller says it has: rc, sig and *siglen afterwards
EcdsaSignature(raw_null, raw, raw_siglen, sig_null, sig, siglen_in) ==
    LET out == [rc |-> OSSL_RV_OK, sig |-> sig, siglen |-> siglen_in]
        half == raw_siglen \div 2
        r == BN_bin2bn(SubSeq(raw, 1, half))
        s == BN_bin2bn(SubSeq(raw, half + 1, 2 * half))
        der == i2d_ECDSA_SIG(r, s)
        derlen == Len(der)
    IN  IF RawRefused(raw_null, raw_siglen)
        THEN [out EXCEPT !.rc = OSSL_RV_ERR]
        ELSE IF sig_null
        THEN [out EXCEPT !.siglen = derlen]
        ELSE IF TooSmall(siglen_in, derlen)
        THEN [out EXCEPT !.rc = OSSL_RV_ERR]
        ELSE [out EXCEPT !.sig = der \o SubSeq(sig, derlen + 1, Len(sig)),
                         !.siglen = derlen]

Unwritten(n) == [i \in 1..n |-> -1]

\* the caller's state after a call
Called(raw_null, raw_siglen, sig_null, siglen_in, out) ==
    [called |-> TRUE, raw_null |-> raw_null, raw |-> sigst.raw,
     raw_siglen |-> raw_siglen, sig_null |-> sig_null, sig |-> out.sig,
     siglen_in |-> siglen_in, siglen |-> out.siglen, rc |-> out.rc,
     sized |-> IF sigst.called /\ sigst.sig_null /\ ~sigst.raw_null
                  /\ sigst.rc = OSSL_RV_OK
               THEN sigst.siglen ELSE -1]

\* the raw arguments of a call: the caller's buffer with its length, or NULL
\* with a length of 0 or of the buffer
RawArgs == {<<FALSE, Len(sigst.raw)>>, <<TRUE, 0>>, <<TRUE, Len(sigst.raw)>>}

\* a call with sig NULL; *siglen is whatever the caller's variable holds
ecdsa_signature_size ==
    /\ \E a \in RawArgs :
         sigst' = Called(a[1], a[2], TRUE, sigst.siglen,
                         EcdsaSignature(a[1], sigst.raw, a[2], TRUE, <<>>, sigst.siglen))
    /\ UNCHANGED <<fwdvars, corevars, thrvars>>

\* a call with a buffer of cap cells, *siglen set to cap
ecdsa_signature_encode ==
    /\ \E a \in RawArgs, cap \in 0..MaxCap :
         sigst' = Called(a[1], a[2], FALSE, cap,
                         EcdsaSignature(a[1], sigst.raw, a[2], FALSE, Unwritten(cap), cap))
    /\ UNCHANGED <<fwdvars, corevars, thrvars>>

InitCodec ==
    /\ FwdInit
    /\ backend = TestDouble
    /\ CoreZero
    /\ \E raw \in ByteStrs(MaxRawLen), siglen \in {0, MaxCap} :
         sigst = [NoSig EXCEPT !.raw = raw, !.raw_siglen = Len(raw), !.siglen = siglen]

NextCodec ==
    \/ ecdsa_signature_size
    \/ ecdsa_signature_encode

SpecCodec == InitCodec /\ [][NextCodec]_vars

----------------------------------------------------------------------------
(* Properties of the resolver *)

Queried(op) == 1..Len(qlog[op])

\* every result the backend has given for the operation id was marked so
AllCacheable(op) == \A i \in Queried(op) : qlog[op][i].no_cache = 0

AllNoCache(op) == \A i \in Queried(op) : qlog[op][i].no_cache = 1

AllTables(op) == \A i \in Queried(op) : ~qlog[op][i].null

IsGetFunc(c) == c.fn = "fwd_get_func"

\* C1: a queried table is released only when the backend marked it
\* non-cacheable, and no cache slot of a loaded handle holds a released table
C1_CachedTableNotReleased ==
    /\ \A op \in OpIds : \A i \in Queried(op) :
          qlog[op][i].rel > 0 => qlog[op][i].no_cache = 1
    /\ fwd.provider # 0 =>
          \A op \in OpIds :
             fwd.alg_cache[op] # 0 => qlog[op][fwd.alg_cache[op]].rel = 0

\* C2 as stated: when the backend marks its results for an operation id
\* cacheable, the backend is queried once for it however many calls follow
C2_OneQueryWhenCacheable ==
    \A op \in OpIds : AllCacheable(op) => Len(qlog[op]) <= 1

\* C2 amended: when the backend marks its results cacheable and returns a
\* table, the query counter is 1 after the first call and stays 1
C2_OneQueryWhenCacheableTable ==
    \A op \in OpIds :
       (AllCacheable(op) /\ AllTables(op)) =>
          /\ Len(qlog[op]) <= 1
          /\ (last.valid /\ last.operation_id = op) =>
                (Len(qlog[op]) = 1 /\ fwd.alg_cache[op] = 1)

\* a second call for the signature tables has read the cache
C2_Witness ==
    /\ last.valid /\ last.operation_id = OSSL_OP_SIGNATURE /\ last.query = 0
    /\ AllCacheable(OSSL_OP_SIGNATURE) /\ Len(qlog[OSSL_OP_SIGNATURE]) = 1

\* C3: when the backend marks the results for an operation id non-cacheable
\* every call queries it, every table it returned has been released exactly
\* once, and the cache slot is unset
C3_NoCacheQueriesEveryCall ==
    \A op \in OpIds :
       AllNoCache(op) =>
          /\ fwd.alg_cache[op] = 0
          /\ \A i \in Queried(op) :
                qlog[op][i].rel = IF qlog[op][i].null THEN 0 ELSE 1
          /\ (last.valid /\ last.operation_id = op) =>
                (last.query = 1 /\ Len(qlog[op]) >= 1)

\* two calls, two queries, two tables released
C3_Witness ==
    /\ last.valid /\ last.operation_id = OSSL_OP_SIGNATURE /\ last.query = 1
    /\ AllNoCache(OSSL_OP_SIGNATURE) /\ Len(qlog[OSSL_OP_SIGNATURE]) = 2
    /\ qlog[OSSL_OP_SIGNATURE][1].rel = 1 /\ qlog[OSSL_OP_SIGNATURE][2].rel = 1

\* C7: a call with a NULL handle, a handle that is not loaded or an
\* operation id out of range returns NULL, queries and releases nothing and
\* leaves the cache as it was
C7_InvalidCallIsNoOp ==
    [][(/\ IsGetFunc(last')
        /\ \/ last'.fwd_null
           \/ fwd.provider = 0
           \/ last'.operation_id <= 0
           \/ last'.operation_id > OSSL_OP__HIGHEST)
       => (/\ last'.ret = NULLF /\ ~last'.valid /\ last'.query = 0
           /\ UNCHANGED <<fwd, provs, qlog, fault>>)]_vars

\* a call on a handle that was loaded, has a cached table, and was unloaded
C7_Witness ==
    /\ IsGetFunc(last) /\ ~last.valid /\ ~last.fwd_null
    /\ last.operation_id = OSSL_OP_SIGNATURE /\ last.ret = NULLF
    /\ fwd.provider = 0 /\ Len(provs) > 0
    /\ fwd.alg_cache[OSSL_OP_SIGNATURE] # 0

\* the entries of a table before its end, and the pairs of an entry
Entries(tab) ==
    IF tab.null THEN {}
    ELSE {i \in 1..Len(tab.algs) : \A k \in 1..i : ~tab.algs[k].names_null}

Pairs(impl) == {j \in 1..Len(impl) : \A k \in 1..j : impl[k].function_id # 0}

\* the function paired with the id in the first entry the name matches
FirstMatch(tab, algorithm, function_id) ==
    LET M == {i \in Entries(tab) : AliasMatch(tab.algs[i].algorithm_names, algorithm)}
    IN  IF M = {} THEN NULLF
        ELSE LET e == tab.algs[CHOOSE i \in M : \A k \in M : i <= k]
                 J == {j \in Pairs(e.implementation) :
                          e.implementation[j].function_id = function_id}
             IN  IF J = {} THEN NULLF
                 ELSE e.implementation[CHOOSE j \in J : \A k \in J : j <= k].function

\* C8: on a loaded handle with a valid operation id the result is the
\* function paired with the id in the first matching entry, NULL when there
\* is none, the same from the cache and from a query; with the one entry
\* ECDSA mapping 7 to F, ECDSA gives F and RSA gives NULL
C8_FirstMatchingEntry ==
    (IsGetFunc(last) /\ last.valid) =>
       /\ last.ret = FirstMatch(backend.algs[last.operation_id],
                                last.algorithm, last.function_id)
       /\ (backend = TestDouble /\ last.operation_id = OSSL_OP_SIGNATURE
           /\ last.function_id = 7) =>
             /\ last.algorithm = sECDSA => last.ret = "F"
             /\ last.algorithm = sRSA => last.ret = NULLF

\* from the cache: the first entry named ECDSA has no id 1, a later one has
C8_Witness ==
    /\ IsGetFunc(last) /\ last.valid /\ last.query = 0
    /\ backend = DefaultLike /\ last.operation_id = OSSL_OP_SIGNATURE
    /\ last.algorithm = sECDSA /\ last.function_id = 1 /\ last.ret = NULLF

TypedFns == {"fwd_keymgmt_get_func", "fwd_asym_get_func", "fwd_sign_get_func"}

\* C6: for a key type that is not RSA, RSA-PSS or EC the typed lookups
\* return NULL as a normal result: no fault, no query, the cache unchanged
C6_UnknownKeyTypeGivesNull ==
    (last.fn \in TypedFns
     /\ last.pkey_type \notin {EVP_PKEY_RSA, EVP_PKEY_RSA_PSS, EVP_PKEY_EC}) =>
       (~fault /\ last.ret = NULLF /\ last.query = 0)

\* the aliases of an alias list: the texts between its ':'
RECURSIVE SplitFrom(_, _, _)
SplitFrom(names, i, cur) ==
    IF i > Len(names) THEN {cur}
    ELSE IF names[i] = ":" THEN {cur} \cup SplitFrom(names, i + 1, <<>>)
    ELSE SplitFrom(names, i + 1, Append(cur, names[i]))

Lowered(x) == [i \in 1..Len(x) |-> tolower(x[i])]

\* the name is one whole alias of the list, letter case apart
IsAlias(names, algorithm) ==
    \E a \in SplitFrom(names, 1, <<>>) : Lowered(a) = Lowered(algorithm)

TheNames == backend.algs[OSSL_OP_SIGNATURE].algs[1].algorithm_names

\* C4: a name that is one whole alias of the entry's list, in any position
\* and whatever the other aliases are, is matched
C4_WholeAliasMatches ==
    (IsGetFunc(last) /\ last.valid /\ IsAlias(TheNames, last.algorithm)) =>
       last.ret = "F"

\* C5: an entry is matched only by a name that is one single alias of its
\* list: not by a name that spans aliases and their ':', not by a part or a
\* concatenation of aliases
C5_OnlyWholeAliasMatches ==
    (IsGetFunc(last) /\ last.valid /\ last.ret = "F") =>
       IsAlias(TheNames, last.algorithm)

\* C9: teardown of a NULL context, of a context with every field unset and
\* a second teardown change nothing; no child context is ever freed twice;
\* after a teardown the child context, the handle and the four callbacks
\* are NULL
C9_TeardownIdempotent ==
    /\ [](\A i \in 1..Len(libctxs) : libctxs[i] <= 1)
    /\ []((corelast.fn = "core_teardown" /\ ~corelast.core_null) => core = NoCore)
    /\ [][(/\ corelast'.fn = "core_teardown"
           /\ \/ corelast'.core_null
              \/ core = NoCore
              \/ (corelast.fn = "core_teardown" /\ ~corelast.core_null))
          => UNCHANGED <<core, libctxs>>]_vars

\* a second teardown right after the one that freed the child context
C9_Witness ==
    /\ corelast.fn = "core_teardown" /\ corelast.prev = "core_teardown"
    /\ ~corelast.core_null /\ ~corelast.prev_null
    /\ Len(libctxs) = 2 /\ libctxs[1] = 1 /\ libctxs[2] = 1
    /\ core = NoCore

\* C10: a raw signature of odd length is refused, in sizing mode and in
\* encoding mode, nothing is written to sig and *siglen is unchanged; a NULL
\* raw and a raw_siglen of 0 are refused too
C10_OddLengthRefused ==
    (sigst.called
     /\ (sigst.raw_null \/ sigst.raw_siglen = 0 \/ sigst.raw_siglen % 2 = 1)) =>
       /\ sigst.rc = OSSL_RV_ERR
       /\ sigst.siglen = sigst.siglen_in
       /\ \A i \in 1..Len(sigst.sig) : sigst.sig[i] = -1

----------------------------------------------------------------------------
(* Properties of the signature codec *)

\* the number of content bytes of the INTEGER of an n-byte big-endian half:
\* its bytes without the leading zeros, one more when the top bit of the
\* first is set, one byte for zero
RECURSIVE IntBytes(_)
IntBytes(bytes) ==
    IF bytes = <<>> THEN 1
    ELSE IF bytes[1] = 0 THEN IntBytes(Tail(bytes))
    ELSE IF bytes[1] >= 128 THEN Len(bytes) + 1
    ELSE Len(bytes)

\* the length L of the encoding of a raw signature: a two-byte header, and a
\* two-byte header for each of the two integers
RequiredLen(raw, raw_siglen) ==
    LET n == raw_siglen \div 2
    IN  2 + (2 + IntBytes(SubSeq(raw, 1, n))) + (2 + IntBytes(SubSeq(raw, n + 1, 2 * n)))

\* C11: for a raw signature that is accepted, a call without a buffer
\* succeeds, sets *siglen to the length L of the encoding and writes nothing;
\* a call with a buffer of less than L cells fails, writes no cell and
\* leaves *siglen as it was; a call with L cells or more writes the first L
\* cells and no other and sets *siglen to L
C11_BufferProtocol ==
    (sigst.called /\ ~sigst.raw_null /\ sigst.raw_siglen > 0) =>
       LET L == RequiredLen(sigst.raw, sigst.raw_siglen)
       IN  /\ sigst.sig_null =>
                (sigst.rc = OSSL_RV_OK /\ sigst.siglen = L /\ sigst.sig = <<>>)
           /\ (~sigst.sig_null /\ sigst.siglen_in < L) =>
                /\ sigst.rc = OSSL_RV_ERR
                /\ sigst.siglen = sigst.siglen_in
                /\ Len(sigst.sig) = sigst.siglen_in
                /\ \A i \in 1..Len(sigst.sig) : sigst.sig[i] = -1
           /\ (~sigst.sig_null /\ sigst.siglen_in >= L) =>
                /\ sigst.rc = OSSL_RV_OK
                /\ sigst.siglen = L
                /\ Len(sigst.sig) = sigst.siglen_in
                /\ \A i \in 1..Len(sigst.sig) : (sigst.sig[i] # -1) <=> (i <= L)

\* a buffer one cell short of the twelve that two halves of two bytes with
\* the top bit set need
C11_Witness ==
    /\ sigst.called /\ ~sigst.raw_null /\ ~sigst.sig_null
    /\ sigst.raw_siglen = 4 /\ sigst.raw[1] = 128 /\ sigst.raw[3] = 128
    /\ sigst.siglen_in = 11 /\ sigst.rc = OSSL_RV_ERR

\* the number a sequence of bytes is, read big-endian without a sign
RECURSIVE BigEndian(_)
BigEndian(bytes) ==
    IF bytes = <<>> THEN 0
    ELSE 256 * BigEndian(SubSeq(bytes, 1, Len(bytes) - 1)) + bytes[Len(bytes)]

RECURSIVE Pow256(_)
Pow256(n) == IF n = 0 THEN 1 ELSE 256 * Pow256(n - 1)

\* the number the content of a DER INTEGER is: two's complement, big-endian
IntegerValue(content) ==
    IF content[1] >= 128 THEN BigEndian(content) - Pow256(Len(content))
    ELSE BigEndian(content)

\* the reading of a DER SEQUENCE of two INTEGERs with one-byte lengths:
\* <<well-formed, r, s>>
Decode(der) ==
    LET n == Len(der)
        l1 == IF n >= 4 THEN der[4] ELSE 0
        p2 == 5 + l1
        l2 == IF n >= p2 + 1 THEN der[p2 + 1] ELSE 0
        ok == /\ n >= 8 /\ der[1] = 48 /\ der[2] = n - 2
              /\ der[3] = 2 /\ l1 >= 1 /\ n >= p2 + 1
              /\ der[p2] = 2 /\ l2 >= 1 /\ n = p2 + 1 + l2
    IN  IF ok
        THEN <<TRUE, IntegerValue(SubSeq(der, 5, 4 + l1)),
                     IntegerValue(SubSeq(der, p2 + 2, p2 + 1 + l2))>>
        ELSE <<FALSE, 0, 0>>

\* C12: for a raw signature of 2n bytes, n >= 1, a call with a buffer of the
\* length the call without a buffer reported before succeeds, and what it
\* wrote decodes to the pair of the first n and the last n bytes of the raw
\* signature read as unsigned big-endian numbers
C12_RoundTrip ==
    (/\ sigst.called /\ ~sigst.raw_null /\ ~sigst.sig_null
     /\ sigst.raw_siglen >= 2 /\ sigst.raw_siglen % 2 = 0
     /\ sigst.sized # -1 /\ sigst.siglen_in = sigst.sized) =>
       LET n == sigst.raw_siglen \div 2
       IN  /\ sigst.rc = OSSL_RV_OK
           /\ sigst.siglen = sigst.sized
           /\ Decode(SubSeq(sigst.sig, 1, sigst.siglen))
                = <<TRUE, BigEndian(SubSeq(sigst.raw, 1, n)),
                          BigEndian(SubSeq(sigst.raw, n + 1, 2 * n))>>

\* a first half with a leading zero and a second with the top bit set
C12_Witness ==
    /\ sigst.called /\ ~sigst.raw_null /\ ~sigst.sig_null
    /\ sigst.raw = <<0, 1, 128, 0>> /\ sigst.raw_siglen = 4
    /\ sigst.sized = 10 /\ sigst.siglen_in = 10
    /\ sigst.rc = OSSL_RV_OK /\ sigst.siglen = 10

----------------------------------------------------------------------------
(* Properties of the core context *)

\* how often a callback reference occurs in a sequence of calls
Times(f, calls) == Cardinality({i \in 1..Len(calls) : calls[i] = f})

\* the places of a callback reference in a sequence of calls
Places(f, calls) == {i \in 1..Len(calls) : calls[i] = f}

\* C13: ossl_put_error calls each of new_error, set_error_debug and
\* vset_error that the context holds, once, in this order, and nothing
\* else, whichever of them are absent; with a NULL context and on a context
\* that was torn down it calls nothing
C13_PutErrorRelaysPresent ==
    (corelast.fn = "ossl_put_error") =>
       LET calls == corelast.invoked
           f == core.fns
       IN  /\ corelast.core_null => calls = <<>>
           /\ (corelast.prev = "core_teardown" /\ ~corelast.prev_null) => calls = <<>>
           /\ ~corelast.core_null =>
                /\ \A g \in {f.new_error, f.set_error_debug, f.vset_error} \ {NULLF} :
                      Times(g, calls) = 1
                /\ \A i \in 1..Len(calls) :
                      calls[i] \in {f.new_error, f.set_error_debug, f.vset_error} \ {NULLF}
                /\ \A i \in Places(f.new_error, calls),
                      j \in Places(f.set_error_debug, calls) \cup Places(f.vset_error, calls) :
                        i < j
                /\ \A i \in Places(f.set_error_debug, calls),
                      j \in Places(f.vset_error, calls) : i < j

\* new_error absent, the two others present and called
C13_Witness ==
    /\ corelast.fn = "ossl_put_error" /\ ~corelast.core_null
    /\ core.fns.new_error = NULLF
    /\ corelast.invoked = <<"h3_set_error_debug", "h3_vset_error">>

\* C14: after a core_init that failed to create the child context the
\* context has every field unset: libctx and handle NULL and none of the
\* four callbacks stored
C14_FailedInitLeavesUnset ==
    (corelast.fn = "core_init" /\ corelast.rc = OSSL_RV_ERR) => core = NoCore

----------------------------------------------------------------------------
(* Properties of the life cycle of the forward handle *)

\* C15: an fwd_init that fails because the backend cannot be loaded or has
\* no context pointer returns an error, has unloaded the backend it loaded
\* once, and leaves provider and ctx NULL; every lookup on a handle that is
\* not loaded returns NULL; fwd_teardown of a NULL handle or of a handle
\* that is not loaded changes nothing; no backend is unloaded twice
C15_LoadUnloadLifecycle ==
    /\ []((last.fn = "fwd_init" /\ last.cause \in {"load", "ctx"}) =>
            /\ last.rc = OSSL_RV_ERR
            /\ fwd.provider = 0 /\ fwd.ctx = 0
            /\ last.cause = "ctx" => provs[Len(provs)].unloads = 1)
    /\ []((IsGetFunc(last) /\ fwd.provider = 0) => (last.ret = NULLF /\ last.query = 0))
    /\ [](\A i \in 1..Len(provs) : provs[i].unloads <= 1)
    /\ [][(last'.fn = "fwd_teardown" /\ (last'.fwd_null \/ fwd.provider = 0))
          => UNCHANGED <<fwd, provs, qlog>>]_vars

\* the second backend loaded had no context pointer and was unloaded, after
\* the first was loaded and unloaded by fwd_teardown
C15_Witness ==
    /\ last.fn = "fwd_init" /\ last.cause = "ctx" /\ last.rc = OSSL_RV_ERR
    /\ Len(provs) = 2 /\ provs[1].unloads = 1 /\ provs[2].unloads = 1
    /\ fwd.provider = 0 /\ fwd.ctx = 0

----------------------------------------------------------------------------
(* Properties of the typed lookups *)

\* the operation id a typed lookup is to ask for
ExpectedOp(fn) ==
    CASE fn = "fwd_keymgmt_get_func" -> 10
      [] fn = "fwd_keyexch_get_func" -> 11
      [] fn = "fwd_sign_get_func" -> 12
      [] fn = "fwd_asym_get_func" -> 13

\* the name a typed lookup is to ask for
ExpectedName(fn, pkey_type) ==
    CASE fn = "fwd_keyexch_get_func" -> <<"E", "C", "D", "H">>
      [] fn # "fwd_keyexch_get_func" /\ pkey_type = 6 -> <<"R", "S", "A">>
      [] fn # "fwd_keyexch_get_func" /\ pkey_type = 912 ->
           <<"R", "S", "A", "-", "P", "S", "S">>
      [] fn = "fwd_sign_get_func" /\ pkey_type = 408 -> <<"E", "C", "D", "S", "A">>
      [] fn \in {"fwd_keymgmt_get_func", "fwd_asym_get_func"} /\ pkey_type = 408 ->
           <<"E", "C">>

\* C16: for RSA, RSA-PSS and EC keys and every function id, the key
\* management and asymmetric cipher lookups ask for RSA, RSA-PSS and EC,
\* the signature lookup for RSA, RSA-PSS and ECDSA, the key exchange lookup
\* for ECDH whatever the key, each under its own operation id; the result is
\* what fwd_get_func gives for that id and name: the function of the first
\* matching entry on a loaded handle, NULL on one that is not loaded
C16_TypedLookupNames ==
    (\/ last.fn = "fwd_keyexch_get_func"
     \/ (last.fn \in TypedFns /\ last.pkey_type \in {6, 912, 408})) =>
       /\ ~fault
       /\ last.operation_id = ExpectedOp(last.fn)
       /\ last.valid <=> (~last.fwd_null /\ fwd.provider # 0)
       /\ last.valid =>
            /\ last.algorithm = ExpectedName(last.fn, last.pkey_type)
            /\ last.ret = FirstMatch(backend.algs[ExpectedOp(last.fn)],
                                     ExpectedName(last.fn, last.pkey_type),
                                     last.function_id)
       /\ ~last.valid => last.ret = NULLF

\* a signature lookup for an EC key finds the entry named ECDSA
C16_Witness ==
    /\ last.fn = "fwd_sign_get_func" /\ last.pkey_type = 408 /\ last.valid
    /\ backend = DefaultLike /\ last.function_id = 7
    /\ last.algorithm = <<"E", "C", "D", "S", "A">> /\ last.ret = "ecdsa_sign"

\* C17: no cache slot of a loaded handle holds a table that was obtained
\* from a backend that has been unloaded, so that the first lookup for an
\* operation id after a reload finds the slot unset and queries the backend
\* that is loaded now
C17_CacheDiesWithBackend ==
    fwd.provider # 0 =>
       \A op \in OpIds :
          fwd.alg_cache[op] # 0 =>
             provs[qlog[op][fwd.alg_cache[op]].gen].unloads = 0

LookupFns ==
    {"fwd_get_func", "fwd_keymgmt_get_func", "fwd_keyexch_get_func",
     "fwd_asym_get_func", "fwd_sign_get_func"}

\* C18: a lookup never overwrites or clears a cache slot that holds a table,
\* whatever the operation id, the name and no_cache are, and a lookup for
\* an operation id changes no slot but that of the id
C18_SlotsWriteOnce ==
    [][(last'.fn \in LookupFns) =>
          \A op \in OpIds :
             /\ fwd.alg_cache[op] # 0 => fwd'.alg_cache[op] = fwd.alg_cache[op]
             /\ op # last'.operation_id => fwd'.alg_cache[op] = fwd.alg_cache[op]
             /\ fwd'.provider = fwd.provider]_vars

\* two slots hold a table and the last lookup has read one of them
C18_Witness ==
    /\ last.fn = "fwd_sign_get_func" /\ last.valid /\ last.query = 0
    /\ fwd.alg_cache[OSSL_OP_SIGNATURE] # 0
    /\ fwd.alg_cache[OSSL_OP_KEYMGMT] # 0

\* the function ids of a dispatch table before its end
IdsOf(in) == {in[j].function_id : j \in Pairs(in)}

\* C19: after a successful core_init each of get_params, new_error,
\* set_error_debug and vset_error is present exactly when the dispatch table
\* of this call has its function id before the end, whatever calls of
\* core_init and core_teardown came before
C19_CallbacksOfLastInit ==
    (corelast.fn = "core_init" /\ corelast.rc = OSSL_RV_OK) =>
       /\ core.fns.get_params # NULLF <=> 2 \in IdsOf(corelast.in)
       /\ core.fns.new_error # NULLF <=> 5 \in IdsOf(corelast.in)
       /\ core.fns.set_error_debug # NULLF <=> 6 \in IdsOf(corelast.in)
       /\ core.fns.vset_error # NULLF <=> 7 \in IdsOf(corelast.in)

----------------------------------------------------------------------------
(* Properties of concurrent lookups *)

\* both threads have read the slot as NULL, have queried the backend with a
\* cacheable result and are on the path of a fresh query
BothQueried ==
    /\ \A t \in Threads :
          pc[t] \in {"l172", "l192", "l197", "l202"} /\ loc[t].query = 1
    /\ Len(qlog[OSSL_OP_SIGNATURE]) = 2
    /\ AllCacheable(OSSL_OP_SIGNATURE)

\* C20: when the callers hold one mutex per handle around every lookup, no
\* two threads are inside fwd_get_func at once, the state in which both
\* have queried for the same first lookup is not reached, and a backend
\* that marks its table cacheable is queried once
C20_SerializedQueriesOnce ==
    serialized =>
       /\ ~BothQueried
       /\ \E t \in Threads : pc[t] = "idle"
       /\ (AllCacheable(OSSL_OP_SIGNATURE) /\ AllTables(OSSL_OP_SIGNATURE)) =>
             Len(qlog[OSSL_OP_SIGNATURE]) <= 1

\* without the mutex: both threads are in their first lookup, have read the
\* slot as NULL and have queried; the query counter is 2
C20_Witness ==
    /\ ~serialized
    /\ BothQueried
    /\ \A t \in Threads : loc[t].calls = 1
    /\ fwd.alg_cache[OSSL_OP_SIGNATURE] = 0

=============================================================================
